---- MODULE Spec2Model ----
(***************************************************************************)
(* Model of the virgo4-digital-content-ws request pipeline:                *)
(*   initializeService/validateConfig  (service start)                     *)
(*   itemHandler -> handleItemRequest  (cmd/search.go, cmd/pdf.go)         *)
(*   solrQuery, getValuesByTag         (cmd/config.go)                     *)
(*   getPdfStatus                      (cmd/pdf.go)                        *)
(* Strings built with fmt.Sprintf/fmt.Errorf are kept as the sequence of   *)
(* their pieces, so the text of a message or URL can be inspected.         *)
(* Go maps are functions; map values are wrapped (Str, Pdf, List) because  *)
(* the Go code stores interface{} values of different dynamic types.       *)
(***************************************************************************)
EXTENDS Integers, Sequences, FiniteSets, TLC

VARIABLES
    pc,         \* position of the service / of the request being handled
    config,     \* serviceContext.config (Fields.Item, Fields.Parts, Pdf, Solr)
    authorization, \* the Authorization header of the request being handled
    claims,     \* the "claims" key of the request's gin context
    id,         \* searchContext.id, the caller-supplied identifier
    solrRes,    \* searchContext.solrRes: Docs and meta.numRows
    doc,        \* local doc := s.solrRes.Response.Docs[0]
    length,     \* local length
    invalid,    \* local invalid
    k,          \* position of the validation loop in Fields.Parts.Indexed
    i,          \* row index of the assembly loop
    c,          \* position of the custom-field loop in Fields.Parts.Custom
    part,       \* local part, the row under construction
    parts,      \* local parts
    resp,       \* the searchResponse returned by handleItemRequest
    http,       \* what itemHandler wrote to the gin context
    errlog,     \* messages passed to s.err(), in order
    solrCalls,  \* number of requests sent to Solr for the current request
    pdfCalls    \* exchanges with the PDF service for the current request, in order

vars == <<pc, config, authorization, claims, id, solrRes, doc, length, invalid, k, i, c, part, parts,
          resp, http, errlog, solrCalls, pdfCalls>>

-----------------------------------------------------------------------------
(* Bounds of the model *)

\* longest array field of an index document
MaxLen == 2

-----------------------------------------------------------------------------
(* Go values *)

Str(s) == [str |-> s]
Pdf(status, urls) == [status |-> status, urls |-> urls]
List(l) == [list |-> l]
\* a string built by fmt.Sprintf, kept as its pieces
Text(pieces) == [text |-> pieces]
NilValue == [nil |-> TRUE]
IsStr(v) == DOMAIN v = {"str"}

\* val != "" on an interface{} value: only a string can equal ""; every Text
\* the code builds contains a literal "/"
IsEmptyString(v) == IsStr(v) /\ v.str = ""

EmptyMap == [n \in {} |-> Str("")]

\* m[name] = v on a Go map
Put(m, name, v) == [n \in (DOMAIN m) \cup {name} |-> IF n = name THEN v ELSE m[n]]

StatusOK == 200
StatusInternalServerError == 500
StatusUnauthorized == 401

NoError == <<>>

-----------------------------------------------------------------------------
(* The index document: solrDocument and its accessors *)

StringsTags == {"alternate_id_a", "individual_call_number_a", "pdf_url_a",
                "thumbnail_url_a", "rights_wrapper_url_a"}
StringTags == {"id", "url_iiif_manifest_stored"}
FloatTags == {"score"}

solrDocumentTags == StringsTags \cup StringTags \cup FloatTags

\* solrDocument{}: every field at its zero value
ZeroDocument ==
    [t \in solrDocumentTags |->
        IF t \in StringsTags THEN [kind |-> "[]string", v |-> <<>>]
        ELSE IF t \in StringTags THEN [kind |-> "string", v |-> ""]
        ELSE [kind |-> "float32", v |-> 0]]

Nil == [kind |-> "nil"]

getFieldByTag(d, tag) == IF tag \in DOMAIN d THEN d[tag] ELSE Nil

\* fmt.Sprintf("%0.8f", t) for the scores the model uses
FormatFloat8(t) == IF t = 0 THEN "0.00000000" ELSE "1.00000000"

getValuesByTag(d, tag) ==
    LET v == getFieldByTag(d, tag) IN
    CASE v.kind = "[]string" -> v.v
      [] v.kind = "string"   -> <<v.v>>
      [] v.kind = "float32"  -> <<FormatFloat8(v.v)>>
      [] OTHER               -> <<>>

firstElementOf(s) == IF Len(s) = 0 THEN "" ELSE s[1]

-----------------------------------------------------------------------------
(* The configuration: serviceConfig, and the configurations the model draws *)

NoCustomInfo == [isNil |-> TRUE, IIIFManifestURL |-> [isNil |-> TRUE, URLPrefix |-> ""]]
NoIIIFManifestURL == [isNil |-> FALSE, IIIFManifestURL |-> [isNil |-> TRUE, URLPrefix |-> ""]]
IIIFInfo(prefix) == [isNil |-> FALSE, IIIFManifestURL |-> [isNil |-> FALSE, URLPrefix |-> prefix]]

\* serviceConfigField
Field(name, tag, required) ==
    [Name |-> name, Field |-> tag, Required |-> required, CustomInfo |-> NoCustomInfo]
CustomField(name, tag, info) ==
    [Name |-> name, Field |-> tag, Required |-> FALSE, CustomInfo |-> info]

IndexedSpecs ==
    { Field("pid", "alternate_id_a", TRUE),
      Field("pid", "id", TRUE),
      Field("thumb", "thumbnail_url_a", TRUE),
      Field("thumb", "thumbnail_url_a", FALSE),
      Field("title", "title_a", FALSE) }        \* title_a is no solrDocument tag

IndexedNames == { f.Name : f \in IndexedSpecs }

DistinctNames(fs) == \A a, b \in 1..Len(fs) : fs[a].Name = fs[b].Name => a = b

IndexedChoices ==
    { fs \in UNION { [1..n -> IndexedSpecs] : n \in 0..(Cardinality(IndexedNames) - 1) } :
        DistinctNames(fs) }

IIIFField == CustomField("iiif_manifest_url", "id", IIIFInfo("https://iiif.example/pid"))
PdfField == CustomField("pdf", "pdf_url_a", NoCustomInfo)

CustomChoices ==
    { <<>>, <<IIIFField>>, <<PdfField>>, <<IIIFField, PdfField>>,
      <<CustomField("pdf_status", "pdf_url_a", NoCustomInfo)>>,   \* name of an older revision
      <<CustomField("iiif_manifest_url", "id", NoCustomInfo)>>,
      <<CustomField("iiif_manifest_url", "id", NoIIIFManifestURL)>>,
      <<CustomField("pdf", "", NoCustomInfo)>> }

ItemChoices ==
    { <<>>, <<Field("manifest", "url_iiif_manifest_stored", TRUE)>> }

SolrConfig(host) ==
    [Host |-> host, Core |-> "test_core",
     Clients |-> [Service |-> [Endpoint |-> "select"],
                  HealthCheck |-> [Endpoint |-> "ping"]],
     Params |-> [Qt |-> "search", DefType |-> "lucene"]]

PdfConfig ==
    [Endpoints |-> [Generate |-> "", Status |-> "/status",
                    Download |-> "/download", Delete |-> "/delete"]]

Configs ==
    { [Solr |-> SolrConfig(h), Pdf |-> PdfConfig,
       Fields |-> [Item |-> it, Parts |-> [Indexed |-> ix, Custom |-> cu]]] :
        h \in {"http://solr.example"}, it \in ItemChoices,
        ix \in IndexedChoices, cu \in CustomChoices }
    \cup
    { [Solr |-> SolrConfig(""), Pdf |-> PdfConfig,
       Fields |-> [Item |-> <<>>, Parts |-> [Indexed |-> <<>>, Custom |-> <<>>]]] }

-----------------------------------------------------------------------------
(* validateConfig and initializeService *)

\* stringValidator.requireValue over a list of values: invalid iff one is empty
requireValue(values) == \E n \in 1..Len(values) : values[n] = ""

\* stringValidator.Values(): the non-empty values added
Values(values) == { values[n] : n \in { m \in 1..Len(values) : values[m] # "" } }

Names(fs) == [n \in 1..Len(fs) |-> fs[n].Name]
Tags(fs) == [n \in 1..Len(fs) |-> fs[n].Field]

KnownCustomNames == {"iiif_manifest_url", "pdf"}

\* customFieldInvalid without the default case
customFieldInvalid_AcceptUnknown(f) ==
    CASE f.Name = "iiif_manifest_url" ->
            \/ f.CustomInfo.isNil
            \/ f.CustomInfo.IIIFManifestURL.isNil
      [] OTHER -> FALSE

\* the switch on field.Name in validateConfig's loop over Fields.Parts.Custom
customFieldInvalid(f) ==
    CASE f.Name = "iiif_manifest_url" ->
            \/ f.CustomInfo.isNil
            \/ f.CustomInfo.IIIFManifestURL.isNil
      [] f.Name = "pdf" -> FALSE
      [] OTHER -> TRUE

hasIIIFInfo(f) ==
    /\ f.Name = "iiif_manifest_url"
    /\ ~f.CustomInfo.isNil
    /\ ~f.CustomInfo.IIIFManifestURL.isNil

\* URL prefixes handed to miscValues.requireValue
customMiscValues(fs) ==
    LET with == SelectSeq(fs, hasIIIFInfo)
    IN  [n \in 1..Len(with) |-> with[n].CustomInfo.IIIFManifestURL.URLPrefix]

hasKnownName(f) == f.Name \in KnownCustomNames

\* solr fields handed to solrFields.requireValue for custom fields
customSolrFields(fs) == Tags(SelectSeq(fs, hasKnownName))

\* TRUE iff validateConfig logs an error and calls os.Exit(1)
validateConfig(cfg) ==
    LET item == cfg.Fields.Item
        indexed == cfg.Fields.Parts.Indexed
        custom == cfg.Fields.Parts.Custom
        miscValues ==
            <<cfg.Solr.Host, cfg.Solr.Core,
              cfg.Solr.Clients.Service.Endpoint, cfg.Solr.Clients.HealthCheck.Endpoint,
              cfg.Solr.Params.Qt, cfg.Solr.Params.DefType>>
            \o Names(item) \o Names(indexed) \o Names(custom) \o customMiscValues(custom)
        solrFields == Tags(item) \o Tags(indexed) \o customSolrFields(custom)
        invalidCustom == \E n \in 1..Len(custom) : customFieldInvalid(custom[n])
        invalidTag ==
            \E tag \in Values(solrFields) : getFieldByTag(ZeroDocument, tag) = Nil
    IN  invalidCustom \/ invalidTag \/ requireValue(solrFields) \/ requireValue(miscValues)

\* the configurations initializeService lets through
ValidConfigs == { cfg \in Configs : ~validateConfig(cfg) }

-----------------------------------------------------------------------------
(* Index documents the model draws *)

PidValues == <<"p1", "p2", "p3", "p4">>
ThumbValues == <<"t1.jpg", "t2.jpg", "t3.jpg", "t4.jpg">>
CallNumberValues == <<"Page 1", "Page 2", "Page 3", "Page 4">>
PdfURLValues == <<"https://pdf.example/a", "https://pdf.example/b",
                  "https://pdf.example/c", "https://pdf.example/d">>

\* arrays of length n holding, at each index, that index's value or ""
Holes(values, n) == { s \in [1..n -> {""} \cup { values[j] : j \in 1..n }] :
                        \A j \in 1..n : s[j] \in {"", values[j]} }

TagValues(tag) ==
    CASE tag = "id" -> { [kind |-> "string", v |-> s] : s \in {"", "rec1"} }
      [] tag = "url_iiif_manifest_stored" ->
            { [kind |-> "string", v |-> s] : s \in {"", "https://iiif.example/m"} }
      [] tag = "alternate_id_a" ->
            { [kind |-> "[]string", v |-> s] :
                s \in UNION { Holes(PidValues, n) : n \in 0..MaxLen } }
      [] tag = "pdf_url_a" ->
            { [kind |-> "[]string", v |-> s] :
                s \in { SubSeq(PdfURLValues, 1, n) : n \in 0..MaxLen } \cup
                      { [SubSeq(PdfURLValues, 1, n) EXCEPT ![1] = ""] : n \in 1..MaxLen } }
      [] tag = "thumbnail_url_a" ->
            { [kind |-> "[]string", v |-> SubSeq(ThumbValues, 1, n)] : n \in 0..MaxLen }
      [] tag = "individual_call_number_a" ->
            { [kind |-> "[]string", v |-> SubSeq(CallNumberValues, 1, n)] : n \in 0..MaxLen }
      [] OTHER -> { ZeroDocument[tag] }

\* tags a configuration names; Solr returns the other fields empty
ConfiguredTags(cfg) ==
    LET fs == cfg.Fields.Item \o cfg.Fields.Parts.Indexed \o cfg.Fields.Parts.Custom
    IN  { fs[n].Field : n \in 1..Len(fs) }

\* the documents that hold values for the given tags only
DocumentsWith(tags) ==
    LET V(t) == IF t \in tags THEN TagValues(t) ELSE { ZeroDocument[t] }
    IN  { [t \in solrDocumentTags |->
             CASE t = "id" -> a
               [] t = "url_iiif_manifest_stored" -> b
               [] t = "alternate_id_a" -> e
               [] t = "pdf_url_a" -> f
               [] t = "thumbnail_url_a" -> g
               [] t = "individual_call_number_a" -> h
               [] OTHER -> ZeroDocument[t]] :
            a \in V("id"), b \in V("url_iiif_manifest_stored"),
            e \in V("alternate_id_a"), f \in V("pdf_url_a"),
            g \in V("thumbnail_url_a"), h \in V("individual_call_number_a") }

Documents(cfg) == DocumentsWith(ConfiguredTags(cfg))

Ids == {"rec1", "rec2"}

-----------------------------------------------------------------------------
(* Request state *)

NoResponse == [status |-> 0, data |-> Nil, err |-> NoError]
NoHTTP == [status |-> 0, body |-> Nil]
\* s.solrRes == nil
NoSolrResponse == [isNil |-> TRUE, status |-> 0, Docs |-> <<>>, numRows |-> 0]

\* a failure that hands out the rows assembled so far
Failure_Partial(err) ==
    [status |-> StatusInternalServerError, data |-> Put(EmptyMap, "parts", List(parts)),
     err |-> err]

\* searchResponse{status: http.StatusInternalServerError, err: err}
Failure(err) == [status |-> StatusInternalServerError, data |-> Nil, err |-> err]

\* searchResponse{status: http.StatusOK, data: item}
Success(item) == [status |-> StatusOK, data |-> item, err |-> NoError]

\* no header was received / c.Get("claims") finds nothing
NoHeader == <<>>
NoClaims == [isNil |-> TRUE]

RequestLocals ==
    /\ authorization = NoHeader
    /\ claims = NoClaims
    /\ solrRes = NoSolrResponse
    /\ doc = ZeroDocument
    /\ length = -1
    /\ invalid = FALSE
    /\ k = 1
    /\ i = 0
    /\ c = 1
    /\ part = EmptyMap
    /\ parts = <<>>
    /\ resp = NoResponse
    /\ http = NoHTTP
    /\ errlog = <<>>
    /\ solrCalls = 0
    /\ pdfCalls = <<>>

Init ==
    /\ pc = "init"
    /\ config \in Configs
    /\ id = ""
    /\ RequestLocals

\* initializeService: validateConfig exits the process on an invalid configuration
initializeService ==
    /\ pc = "init"
    /\ pc' = IF validateConfig(config) THEN "exited" ELSE "serving"
    /\ UNCHANGED <<config, authorization, claims,
                   id, solrRes, doc, length, invalid, k, i, c, part, parts,
                   resp, http, errlog, solrCalls, pdfCalls>>

\* the handling of a request is over (answered, aborted or recovered from a
\* panic): its context is released and the service waits for the next one
requestDone ==
    /\ pc \in {"responded", "panicked", "aborted", "pinged"}
    /\ pc' = "serving"
    /\ id' = ""
    /\ authorization' = NoHeader
    /\ claims' = NoClaims
    /\ solrRes' = NoSolrResponse
    /\ doc' = ZeroDocument
    /\ length' = -1
    /\ invalid' = FALSE
    /\ k' = 1
    /\ i' = 0
    /\ c' = 1
    /\ part' = EmptyMap
    /\ parts' = <<>>
    /\ resp' = NoResponse
    /\ http' = NoHTTP
    /\ errlog' = <<>>
    /\ solrCalls' = 0
    /\ pdfCalls' = <<>>
    /\ UNCHANGED config

-----------------------------------------------------------------------------
(* Authentication of the /api routes *)

\* An Authorization header is a sequence of pieces: whitespace characters
\* and chunks of other characters; adjacent chunks form one word.
Whitespace == {" ", "\t"}
Bearer == <<"Bearer">>
SignedToken == <<"eyJ.signed">>
ForgedToken == <<"eyJ.forged">>

Headers ==
    { <<>>,
      <<"Bearer">>,
      <<"Bearer", " ">>,
      <<"eyJ.signed">>,
      <<"Bearer", "eyJ.signed">>,
      <<"Basic", " ", "eyJ.signed">>,
      <<"bearer", " ", "eyJ.signed">>,
      <<"Bearer", " ", "eyJ.signed", " ", "x">>,
      <<"Bearer", " ", "undefined">>,
      <<"Bearer", " ", "eyJ.forged">>,
      <<"\t", "Bearer", " ", " ", "eyJ.forged", " ">>,
      <<"Bearer", " ", "eyJ.signed">> }

\* strings.Fields: the words between runs of whitespace
RECURSIVE Fields(_, _, _, _)
Fields(s, n, word, acc) ==
    IF n > Len(s) THEN (IF word = <<>> THEN acc ELSE Append(acc, word))
    ELSE IF s[n] \in Whitespace
         THEN Fields(s, n + 1, <<>>, IF word = <<>> THEN acc ELSE Append(acc, word))
         ELSE Fields(s, n + 1, Append(word, s[n]), acc)

\* strings.Join(words, " ")
RECURSIVE Join(_, _)
Join(words, n) ==
    IF n > Len(words) THEN <<>>
    ELSE words[n] \o (IF n < Len(words) THEN <<" ">> ELSE <<>>) \o Join(words, n + 1)

\* strings.Split(s, " "): the components between single spaces; one empty
\* component for the empty string
RECURSIVE Split(_, _, _, _)
Split(s, n, word, acc) ==
    IF n > Len(s) THEN Append(acc, word)
    ELSE IF s[n] = " "
         THEN Split(s, n + 1, <<>>, Append(acc, word))
         ELSE Split(s, n + 1, Append(word, s[n]), acc)

\* getBearerToken accepting any scheme word
getBearerToken_AnyScheme(header) ==
    LET components == Split(Join(Fields(header, 1, <<>>, <<>>), 1), 1, <<>>, <<>>)
    IN  IF Len(components) # 2
        THEN [token |-> <<>>, err |-> <<"invalid Authorization header: [", header, "]">>]
        ELSE [token |-> components[2], err |-> NoError]

getBearerToken(header) ==
    LET components == Split(Join(Fields(header, 1, <<>>, <<>>), 1), 1, <<>>, <<>>)
    IN  IF Len(components) # 2 \/ components[1] # Bearer \/ components[2] = <<>>
        THEN [token |-> <<>>, err |-> <<"invalid Authorization header: [", header, "]">>]
        ELSE IF components[2] = <<"undefined">>
        THEN [token |-> <<>>, err |-> <<"bearer token is undefined">>]
        ELSE [token |-> components[2], err |-> NoError]

\* v4jwt.Validate(token, p.config.JWTKey): the claims of a token signed with
\* the key, an error for any other token
v4jwtValidate(token) ==
    IF token = SignedToken
    THEN [claims |-> [isNil |-> FALSE, token |-> token], err |-> NoError]
    ELSE [claims |-> NoClaims, err |-> <<"signature is invalid">>]

\* authenticateHandler: what getBearerToken and v4jwt.Validate return per header
bearerTokens == [header \in Headers |-> getBearerToken(header)]
validations == [header \in Headers |-> v4jwtValidate(bearerTokens[header].token)]

\* a request for /api/resource/:id arrives; authenticateHandler runs before
\* itemHandler and aborts the request with 401 unless the header yields a
\* token that validates
authenticateHandler ==
    /\ pc = "serving"
    /\ \E header \in Headers :
         LET bearer == bearerTokens[header]
             validated == validations[header]
         IN  /\ authorization' = header
             /\ IF bearer.err # NoError
                THEN /\ errlog' = << <<"Authentication failed: [">> \o bearer.err \o <<"]">> >>
                     /\ http' = [status |-> StatusUnauthorized, body |-> Nil]
                     /\ claims' = NoClaims
                     /\ pc' = "aborted"
                ELSE IF validated.err # NoError
                THEN /\ errlog' = << <<"JWT signature for ", bearer.token, " is invalid: ">>
                                      \o validated.err >>
                     /\ http' = [status |-> StatusUnauthorized, body |-> Nil]
                     /\ claims' = NoClaims
                     /\ pc' = "aborted"
                ELSE /\ errlog' = <<>>
                     /\ http' = NoHTTP
                     /\ claims' = validated.claims
                     /\ pc' = "authenticated"
    /\ id' = ""
    /\ solrRes' = NoSolrResponse
    /\ doc' = ZeroDocument
    /\ length' = -1
    /\ invalid' = FALSE
    /\ k' = 1
    /\ i' = 0
    /\ c' = 1
    /\ part' = EmptyMap
    /\ parts' = <<>>
    /\ resp' = NoResponse
    /\ solrCalls' = 0
    /\ pdfCalls' = <<>>
    /\ UNCHANGED config

\* itemHandler up to the call of handleItemRequest: a fresh searchContext
itemHandlerBegin ==
    /\ pc = "authenticated"
    /\ pc' = "solrQuery"
    /\ id' \in Ids
    /\ UNCHANGED <<config, authorization, claims, solrRes, doc, length, invalid, k, i,
                   c, part, parts, resp, http, errlog, solrCalls, pdfCalls>>

-----------------------------------------------------------------------------
(* solrQuery *)

SolrTransportErrors == {"Timeout", "connection refused", "other"}

\* the ways solrQuery can fail, and "ok"
SolrFailures == {"Marshal failed", "NewRequest failed"} \cup SolrTransportErrors
                    \cup {"decode error", "solr error"}
SolrOutcomes == SolrFailures \cup {"ok"}

\* the error solrQuery returns for an outcome of the HTTP exchange
solrQueryError(outcome) ==
    CASE outcome = "Marshal failed"      -> <<"failed to marshal Solr JSON">>
      [] outcome = "NewRequest failed"   -> <<"failed to create Solr request">>
      [] outcome \in SolrTransportErrors -> <<"failed to receive Solr response">>
      [] outcome = "decode error"        -> <<"failed to decode Solr response">>
      [] outcome = "solr error"          -> <<"400", " - ", "undefined field">>
      [] OTHER                           -> NoError

\* s.solrQuery() and the handler's return on its error, for an index holding docs
solrQueryOver(documents) ==
    /\ pc = "solrQuery"
    /\ solrCalls' = solrCalls + 1
    /\ \E outcome \in SolrOutcomes :
         IF solrQueryError(outcome) # NoError
         THEN /\ errlog' = Append(errlog, <<"query execution error: ">> \o solrQueryError(outcome))
              /\ resp' = Failure(solrQueryError(outcome))
              /\ pc' = "return"
              /\ solrRes' = IF outcome = "solr error"
                            THEN [isNil |-> FALSE, status |-> 1, Docs |-> <<>>, numRows |-> 0]
                            ELSE solrRes
         ELSE /\ \E docs \in {<<>>} \cup { <<d>> : d \in documents } :
                    solrRes' = [isNil |-> FALSE, status |-> 0,
                                Docs |-> docs, numRows |-> Len(docs)]
              /\ pc' = "numRows"
              /\ UNCHANGED <<resp, errlog>>
    /\ UNCHANGED <<config, authorization, claims,
                   id, doc, length, invalid, k, i, c, part, parts,
                   http, pdfCalls>>

\* handleItemRequest: s.solrQuery() and the return on its error
solrQuery == solrQueryOver(Documents(config))

\* "record not found" answered as a client error
recordNotFound_404 == [status |-> 404, data |-> Nil, err |-> <<"record not found">>]

\* the response for a query that matched no document
recordNotFound == Failure(<<"record not found">>)

\* handleItemRequest: the check of meta.numRows, then doc, length and invalid are set
checkNumRows ==
    /\ pc = "numRows"
    /\ IF solrRes.numRows = 0
       THEN /\ errlog' = Append(errlog, recordNotFound.err)
            /\ resp' = recordNotFound
            /\ pc' = "return"
            /\ UNCHANGED <<doc, length, invalid, k>>
       ELSE /\ doc' = solrRes.Docs[1]
            /\ length' = -1
            /\ invalid' = FALSE
            /\ k' = 1
            /\ pc' = "validate"
            /\ UNCHANGED <<resp, errlog>>
    /\ UNCHANGED <<config, authorization, claims,
                   id, solrRes, i, c, part, parts, http,
                   solrCalls, pdfCalls>>

-----------------------------------------------------------------------------
(* handleItemRequest: validation of the indexed part fields *)

MissingRequired(field) == <<"missing required digital content field: ", field.Field>>
LengthMismatch(field) == <<"array-type field length mismatch for field: ", field.Field>>
FieldInconsistencies == <<"digital content field inconsistencies">>
NoDigitalParts == <<"no digital parts found in this record">>

\* fieldCheck without the comparison against the cardinality
fieldCheck_NoMismatch(field, fieldLength, len) ==
    CASE field.Required /\ fieldLength = 0 -> "missing"
      [] len = -1                          -> "first"
      [] OTHER                             -> "equal"

\* what one iteration of the validation loop finds for a field of fieldLength
\* values when the cardinality so far is len
fieldCheck(field, fieldLength, len) ==
    CASE field.Required /\ fieldLength = 0 -> "missing"
      [] len = -1                          -> "first"
      [] fieldLength # len                 -> "mismatch"
      [] OTHER                             -> "equal"

\* one iteration of the loop over Fields.Parts.Indexed
validateField ==
    /\ pc = "validate"
    /\ k <= Len(config.Fields.Parts.Indexed)
    /\ LET field == config.Fields.Parts.Indexed[k]
           fieldLength == Len(getValuesByTag(doc, field.Field))
           found == fieldCheck(field, fieldLength, length)
       IN  /\ length' = IF found = "first" THEN fieldLength ELSE length
           /\ invalid' = (invalid \/ found \in {"missing", "mismatch"})
           /\ errlog' = CASE found = "missing"  -> Append(errlog, MissingRequired(field))
                          [] found = "mismatch" -> Append(errlog, LengthMismatch(field))
                          [] OTHER              -> errlog
    /\ k' = k + 1
    /\ UNCHANGED <<pc, config, authorization, claims,
                   id, solrRes, doc, i, c, part, parts, resp, http,
                   solrCalls, pdfCalls>>

\* validationResult treating an unset length as an empty record
validationResult_EmptyWhenUnset(inv, len) ==
    IF inv THEN Failure(FieldInconsistencies)
    ELSE IF len <= 0 THEN Failure(NoDigitalParts)
    ELSE NoResponse

\* validationResult going on to the rows although a violation was recorded
validationResult_IgnoreInvalid(inv, len) ==
    IF len = 0 THEN Failure(NoDigitalParts) ELSE NoResponse

\* validationResult without the check for an empty record
validationResult_NoEmptyCheck(inv, len) ==
    IF inv THEN Failure(FieldInconsistencies) ELSE NoResponse

\* the response the checks after the loop return, or NoResponse to go on
validationResult(inv, len) ==
    IF inv THEN Failure(FieldInconsistencies)
    ELSE IF len = 0 THEN Failure(NoDigitalParts)
    ELSE NoResponse

\* the checks of invalid and length after the loop
afterValidation ==
    /\ pc = "validate"
    /\ k > Len(config.Fields.Parts.Indexed)
    /\ LET r == validationResult(invalid, length)
       IN  IF r # NoResponse
           THEN /\ errlog' = Append(errlog, r.err)
                /\ resp' = r
                /\ pc' = "return"
                /\ UNCHANGED <<i, parts>>
           ELSE /\ i' = 0
                /\ parts' = <<>>
                /\ pc' = "assemble"
                /\ UNCHANGED <<resp, errlog>>
    /\ UNCHANGED <<config, authorization, claims,
                   id, solrRes, doc, length, invalid, k, c, part, http,
                   solrCalls, pdfCalls>>

-----------------------------------------------------------------------------
(* handleItemRequest: assembly of the rows *)

\* fieldValues[row] is out of range for some indexed field (row counts from 0)
indexOutOfRange(fields, d, row) ==
    \E n \in 1..Len(fields) : row + 1 > Len(getValuesByTag(d, fields[n].Field))

\* the loop over Fields.Parts.Indexed assigning empty values as well
assignIndexed_KeepEmpty(fields, d, row, n, p) ==
    [name \in (DOMAIN p) \cup { fields[m].Name : m \in n..Len(fields) } |->
        IF \E m \in n..Len(fields) : fields[m].Name = name
        THEN Str(getValuesByTag(d, fields[CHOOSE m \in n..Len(fields) :
                                             fields[m].Name = name].Field)[row + 1])
        ELSE p[name]]

\* the loop over Fields.Parts.Indexed for one row, from field n on
RECURSIVE assignIndexed(_, _, _, _, _)
assignIndexed(fields, d, row, n, p) ==
    IF n > Len(fields) THEN p
    ELSE LET val == getValuesByTag(d, fields[n].Field)[row + 1]
         IN  assignIndexed(fields, d, row, n + 1,
                           IF val # "" THEN Put(p, fields[n].Name, Str(val)) ELSE p)

\* for i := 0; i < length; i++ { part := ...; indexed fields }
beginPart ==
    /\ pc = "assemble"
    /\ IF i < length
       THEN IF indexOutOfRange(config.Fields.Parts.Indexed, doc, i)
            THEN /\ pc' = "panicked"
                 /\ UNCHANGED <<part, c>>
            ELSE /\ part' = assignIndexed(config.Fields.Parts.Indexed, doc, i, 1, EmptyMap)
                 /\ c' = 1
                 /\ pc' = "custom"
       ELSE /\ pc' = "item"
            /\ UNCHANGED <<part, c>>
    /\ UNCHANGED <<config, authorization, claims,
                   id, solrRes, doc, length, invalid, k, i, parts, resp, http,
                   errlog, solrCalls, pdfCalls>>

-----------------------------------------------------------------------------
(* getPdfStatus and the custom part fields *)

\* what the exchange with the PDF service can do
PdfFailures == {"NewRequest failed", "Timeout", "connection refused", "other",
                "bad status", "read error"}
PdfOutcomes == PdfFailures \cup {"ok"}

\* status bodies the PDF service answers with
PdfBodies == {"READY"}

\* fmt.Sprintf("%s/%s%s", pdfURL, pid, endpoint)
pdfEndpointURL(pdfURL, pid, endpoint) == Text(<<pdfURL, "/", pid, endpoint>>)

\* getPdfStatus: the (status, error) pair returned for an outcome of the exchange
getPdfStatus(pdfURL, pid, outcome, body) ==
    IF pdfURL = "" \/ pid = ""
    THEN [status |-> "", err |-> <<"pdf url or pid is missing">>]
    ELSE CASE outcome = "NewRequest failed" ->
                [status |-> "", err |-> <<"failed to create PDF status request">>]
           [] outcome \in {"Timeout", "connection refused", "other"} ->
                [status |-> "", err |-> <<"failed to receive PDF status response">>]
           [] outcome = "bad status" ->
                [status |-> "", err |-> <<"received PDF status response code ", "500">>]
           [] outcome = "read error" ->
                [status |-> "", err |-> <<"error reading pdf status response">>]
           [] OTHER ->
                [status |-> body, err |-> NoError]

\* getPdfStatus reaches client.Do(req)
pdfRequestSent(pdfURL, pid, outcome) ==
    pdfURL # "" /\ pid # "" /\ outcome # "NewRequest failed"

\* part["pid"].(string) panics unless the entry exists and holds a string
pidPanics(p) == ~("pid" \in DOMAIN p /\ IsStr(p["pid"]))

\* a pdf subsection that is left out when the status could not be fetched
pdfSection_OmitOnError(cfg, pdfURL, pid, got) ==
    IF got.err # NoError
    THEN Str("")
    ELSE Pdf(got.status,
             [generate |-> pdfEndpointURL(pdfURL, pid, cfg.Pdf.Endpoints.Generate),
              status   |-> pdfEndpointURL(pdfURL, pid, cfg.Pdf.Endpoints.Status),
              download |-> pdfEndpointURL(pdfURL, pid, cfg.Pdf.Endpoints.Download),
              delete   |-> pdfEndpointURL(pdfURL, pid, cfg.Pdf.Endpoints.Delete)])

\* the pdf subsection built for a row
pdfSection(cfg, pdfURL, pid, got) ==
    Pdf(IF got.err # NoError THEN "" ELSE got.status,
        [generate |-> pdfEndpointURL(pdfURL, pid, cfg.Pdf.Endpoints.Generate),
         status   |-> pdfEndpointURL(pdfURL, pid, cfg.Pdf.Endpoints.Status),
         download |-> pdfEndpointURL(pdfURL, pid, cfg.Pdf.Endpoints.Download),
         delete   |-> pdfEndpointURL(pdfURL, pid, cfg.Pdf.Endpoints.Delete)])

\* the PDF base URL the pdf case uses for a row
pdfBaseURL(d, field, row) == firstElementOf(getValuesByTag(d, field.Field))

\* part[field.Name] = val unless val is the empty string
assignCustom(p, field, val) == IF IsEmptyString(val) THEN p ELSE Put(p, field.Name, val)

\* one iteration of the loop over Fields.Parts.Custom
customField ==
    /\ pc = "custom"
    /\ c <= Len(config.Fields.Parts.Custom)
    /\ LET field == config.Fields.Parts.Custom[c] IN
       CASE field.Name = "iiif_manifest_url" ->
              IF pidPanics(part)
              THEN /\ pc' = "panicked"
                   /\ UNCHANGED <<part, c, pdfCalls>>
              ELSE /\ part' = assignCustom(part, field,
                                Text(<<field.CustomInfo.IIIFManifestURL.URLPrefix,
                                       "/", part["pid"].str>>))
                   /\ c' = c + 1
                   /\ UNCHANGED <<pc, pdfCalls>>
         [] field.Name = "pdf" ->
              LET pdfURL == pdfBaseURL(doc, field, i) IN
              IF pdfURL = ""
              THEN /\ c' = c + 1
                   /\ UNCHANGED <<pc, part, pdfCalls>>
              ELSE IF pidPanics(part)
              THEN /\ pc' = "panicked"
                   /\ UNCHANGED <<part, c, pdfCalls>>
              ELSE IF part["pid"].str = ""
              THEN /\ c' = c + 1
                   /\ UNCHANGED <<pc, part, pdfCalls>>
              ELSE \E outcome \in PdfOutcomes, body \in PdfBodies :
                   LET pid == part["pid"].str
                       got == getPdfStatus(pdfURL, pid, outcome, body)
                   IN  /\ pdfCalls' = Append(pdfCalls,
                                         [row |-> i,
                                          url |-> pdfEndpointURL(pdfURL, pid,
                                                     config.Pdf.Endpoints.Status),
                                          sent |-> pdfRequestSent(pdfURL, pid, outcome),
                                          outcome |-> outcome])
                       /\ part' = assignCustom(part, field,
                                               pdfSection(config, pdfURL, pid, got))
                       /\ c' = c + 1
                       /\ UNCHANGED pc
         [] OTHER ->
              /\ part' = assignCustom(part, field, NilValue)
              /\ c' = c + 1
              /\ UNCHANGED <<pc, pdfCalls>>
    /\ UNCHANGED <<config, authorization, claims,
                   id, solrRes, doc, length, invalid, k, i, parts, resp, http,
                   errlog, solrCalls>>

\* parts = append(parts, part), and the loop's i++
appendPart ==
    /\ pc = "custom"
    /\ c > Len(config.Fields.Parts.Custom)
    /\ parts' = Append(parts, part)
    /\ i' = i + 1
    /\ pc' = "assemble"
    /\ UNCHANGED <<config, authorization, claims,
                   id, solrRes, doc, length, invalid, k, c, part, resp, http,
                   errlog, solrCalls, pdfCalls>>

\* the loop over Fields.Item, from field n on
RECURSIVE assignItem(_, _, _, _)
assignItem(fields, d, n, item) ==
    IF n > Len(fields) THEN item
    ELSE LET val == firstElementOf(getValuesByTag(d, fields[n].Field))
         IN  assignItem(fields, d, n + 1,
                        IF val # "" THEN Put(item, fields[n].Name, Str(val)) ELSE item)

\* the item-level fields, item["parts"] = parts, and the successful return
buildItem ==
    /\ pc = "item"
    /\ resp' = Success(Put(assignItem(config.Fields.Item, doc, 1, EmptyMap),
                           "parts", List(parts)))
    /\ pc' = "return"
    /\ UNCHANGED <<config, authorization, claims,
                   id, solrRes, doc, length, invalid, k, i, c, part, parts,
                   http, errlog, solrCalls, pdfCalls>>

\* The JSON encoder writes the keys of a map[string]interface{} sorted as
\* strings; these are the output names of the configurations, so sorted.
SortedNames ==
    <<"cover", "id", "iiif_manifest_url", "items", "manifest", "parts", "pdf",
      "pdf_status", "pid", "rights", "thumb", "title">>

inMap(m, name) == name \in DOMAIN m

\* the keys of a map in the reverse of the encoder's order
mapKeys_Reversed(m) ==
    LET keys == SelectSeq(SortedNames, LAMBDA name : inMap(m, name))
    IN  [n \in 1..Len(keys) |-> keys[Len(keys) + 1 - n]]

\* the keys of a map in the order the encoder writes them
mapKeys(m) == SelectSeq(SortedNames, LAMBDA name : inMap(m, name))

\* the encoding of a row: its key/value pairs in the encoder's order
marshalMap(m) == [n \in 1..Len(mapKeys(m)) |-> <<mapKeys(m)[n], m[mapKeys(m)[n]]>>]

\* the encoding of the record: a list of rows is encoded row by row
marshalRecord(m) ==
    [n \in 1..Len(mapKeys(m)) |->
        LET name == mapKeys(m)[n] IN
        <<name,
          IF DOMAIN m[name] = {"list"}
          THEN List([r \in 1..Len(m[name].list) |-> marshalMap(m[name].list[r])])
          ELSE m[name]>>]

\* itemHandler after handleItemRequest returned: c.String or c.JSON
itemHandlerEnd ==
    /\ pc = "return"
    /\ http' = IF resp.err # NoError
               THEN [status |-> resp.status, body |-> [text |-> resp.err]]
               ELSE [status |-> resp.status, body |-> [json |-> marshalRecord(resp.data)]]
    /\ pc' = "responded"
    /\ UNCHANGED <<config, authorization, claims,
                   id, solrRes, doc, length, invalid, k, i, c, part, parts,
                   resp, errlog, solrCalls, pdfCalls>>

-----------------------------------------------------------------------------
(* GET /healthcheck *)

\* healthCheckHandler up to the call of handlePingRequest; the route is not
\* under /api, so no authentication precedes it
healthCheckBegin ==
    /\ pc = "serving"
    /\ pc' = "pingQuery"
    /\ id' = "pingtest"
    /\ authorization' = NoHeader
    /\ claims' = NoClaims
    /\ solrRes' = NoSolrResponse
    /\ doc' = ZeroDocument
    /\ length' = -1
    /\ invalid' = FALSE
    /\ k' = 1
    /\ i' = 0
    /\ c' = 1
    /\ part' = EmptyMap
    /\ parts' = <<>>
    /\ resp' = NoResponse
    /\ http' = NoHTTP
    /\ errlog' = <<>>
    /\ solrCalls' = 0
    /\ pdfCalls' = <<>>
    /\ UNCHANGED config

\* a probe answered as a failed item request is
PingOK_NotFound == [status |-> StatusInternalServerError, data |-> Nil,
                    err |-> <<"record not found">>]

\* searchResponse{status: http.StatusOK}
PingOK == [status |-> StatusOK, data |-> Nil, err |-> NoError]

\* handlePingRequest: s.solrQuery(), failure on its error, else status 200
handlePingRequest ==
    /\ pc = "pingQuery"
    /\ solrCalls' = solrCalls + 1
    /\ \E outcome \in SolrOutcomes :
         IF solrQueryError(outcome) # NoError
         THEN /\ errlog' = Append(errlog, <<"query execution error: ">> \o solrQueryError(outcome))
              /\ resp' = Failure(solrQueryError(outcome))
              /\ solrRes' = IF outcome = "solr error"
                            THEN [isNil |-> FALSE, status |-> 1, Docs |-> <<>>, numRows |-> 0]
                            ELSE solrRes
         ELSE /\ \E docs \in {<<>>} \cup { <<d>> : d \in Documents(config) } :
                    solrRes' = [isNil |-> FALSE, status |-> 0,
                                Docs |-> docs, numRows |-> Len(docs)]
              /\ resp' = PingOK
              /\ UNCHANGED errlog
    /\ pc' = "pingReturn"
    /\ UNCHANGED <<config, authorization, claims, id, doc, length, invalid, k, i, c,
                   part, parts, http, pdfCalls>>

\* hcSolr reporting healthy whatever the probe returned
hcSolr_AlwaysHealthy(ping) == [Healthy |-> TRUE, Message |-> <<>>]

\* hcSolr: healthy unless the probe returned an error
hcSolr(ping) ==
    IF ping.err # NoError THEN [Healthy |-> FALSE, Message |-> ping.err]
    ELSE [Healthy |-> TRUE, Message |-> <<>>]

\* the JSON encoding of hcResp: message has omitempty
hcRespJSON(hc) ==
    IF hc.Message = <<>> THEN [healthy |-> hc.Healthy]
    ELSE [healthy |-> hc.Healthy, message |-> hc.Message]

\* healthCheckHandler after handlePingRequest returned: c.JSON(ping.status, hcMap)
healthCheckEnd ==
    /\ pc = "pingReturn"
    /\ http' = [status |-> resp.status,
                body |-> [json |-> [solr |-> hcRespJSON(hcSolr(resp))]]]
    /\ pc' = "pinged"
    /\ UNCHANGED <<config, authorization, claims, id, solrRes, doc, length, invalid, k,
                   i, c, part, parts, resp, errlog, solrCalls, pdfCalls>>

Next ==
    \/ initializeService
    \/ authenticateHandler
    \/ itemHandlerBegin
    \/ solrQuery
    \/ checkNumRows
    \/ validateField
    \/ afterValidation
    \/ beginPart
    \/ customField
    \/ appendPart
    \/ buildItem
    \/ itemHandlerEnd
    \/ healthCheckBegin
    \/ handlePingRequest
    \/ healthCheckEnd
    \/ requestDone

Spec == Init /\ [][Next]_vars


-----------------------------------------------------------------------------
(* The revision with one flat field list: handleResourceRequest.  A field  *)
(* carries the flags Custom and Array; every row holds the array fields'   *)
(* i-th values and the other fields' first values; the record carries the  *)
(* identifier.  config.Fields is the flat list in this revision.           *)

\* serviceConfigField of the flat list
FlatField(name, tag, required, array, custom) ==
    [Name |-> name, Field |-> tag, Required |-> required, Array |-> array,
     Custom |-> custom]

FlatSpecs ==
    { FlatField("pid", "id", TRUE, FALSE, FALSE),
      FlatField("pid", "alternate_id_a", TRUE, TRUE, FALSE),
      FlatField("title", "individual_call_number_a", TRUE, TRUE, FALSE),
      FlatField("thumb", "thumbnail_url_a", FALSE, TRUE, FALSE),
      FlatField("cover", "thumbnail_url_a", FALSE, FALSE, FALSE),
      FlatField("pdf_status", "pdf_url_a", FALSE, FALSE, TRUE),
      FlatField("iiif_manifest_url", "", FALSE, FALSE, TRUE),
      FlatField("pdf", "pdf_url_a", FALSE, FALSE, TRUE),         \* name of a later revision
      FlatField("rights", "rights_a", FALSE, TRUE, FALSE) }      \* rights_a is no solrDocument tag

FlatNames == { f.Name : f \in FlatSpecs }

FlatChoices ==
    { fs \in UNION { [1..n -> FlatSpecs] : n \in 0..(Cardinality(FlatNames) - 5) } :
        DistinctNames(fs) }

FlatSolrConfig ==
    [Host |-> "http://solr.example", Core |-> "test_core", Handler |-> "select",
     Params |-> [Qt |-> "search", DefType |-> "lucene"]]

FlatConfigs == { [Solr |-> FlatSolrConfig, Fields |-> fs] : fs \in FlatChoices }

FlatKnownCustomNames == {"iiif_manifest_url", "pdf_status", "pdf_url"}

isCustom(f) == f.Custom
isIndexed(f) == ~f.Custom

\* TRUE iff validateConfig of the flat revision calls os.Exit(1)
validateFlatConfig(cfg) ==
    LET miscValues ==
            <<cfg.Solr.Host, cfg.Solr.Core, cfg.Solr.Handler,
              cfg.Solr.Params.Qt, cfg.Solr.Params.DefType>> \o Names(cfg.Fields)
        custom == SelectSeq(cfg.Fields, isCustom)
        invalidCustom ==
            \E n \in 1..Len(custom) : custom[n].Name \notin FlatKnownCustomNames
        required == Tags(SelectSeq(cfg.Fields, isIndexed))
        solrFields == Values(required) \cup Values(Tags(custom))
        invalidTag == \E tag \in solrFields : getFieldByTag(ZeroDocument, tag) = Nil
    IN  invalidCustom \/ invalidTag \/ requireValue(required) \/ requireValue(miscValues)

FlatTags(cfg) == { cfg.Fields[n].Field : n \in 1..Len(cfg.Fields) }

InitResource ==
    /\ pc = "init"
    /\ config \in FlatConfigs
    /\ id = ""
    /\ RequestLocals

\* initializeService of the flat revision
initializeFlatService ==
    /\ pc = "init"
    /\ pc' = IF validateFlatConfig(config) THEN "exited" ELSE "serving"
    /\ UNCHANGED <<config, authorization, claims,
                   id, solrRes, doc, length, invalid, k, i, c, part, parts,
                   resp, http, errlog, solrCalls, pdfCalls>>

\* handleResourceRequest: s.solrQuery() and the return on its error
resourceSolrQuery == solrQueryOver(DocumentsWith(FlatTags(config)))

NoDigitalItems == <<"no digital items found in this record">>

\* what one iteration of the validation loop finds for a field
flatFieldCheck(field, fieldLength, len) ==
    CASE field.Required /\ fieldLength = 0 -> "missing"
      [] ~field.Array                      -> "skip"
      [] len = -1                          -> "first"
      [] fieldLength # len                 -> "mismatch"
      [] OTHER                             -> "equal"

\* one iteration of the validation loop over Fields
resourceValidateField ==
    /\ pc = "validate"
    /\ k <= Len(config.Fields)
    /\ LET field == config.Fields[k]
           fieldLength == Len(getValuesByTag(doc, field.Field))
           found == flatFieldCheck(field, fieldLength, length)
       IN  /\ length' = IF found = "first" THEN fieldLength ELSE length
           /\ invalid' = (invalid \/ found \in {"missing", "mismatch"})
           /\ errlog' = CASE found = "missing"  -> Append(errlog, MissingRequired(field))
                          [] found = "mismatch" -> Append(errlog, LengthMismatch(field))
                          [] OTHER              -> errlog
    /\ k' = k + 1
    /\ UNCHANGED <<pc, config, authorization, claims,
                   id, solrRes, doc, i, c, part, parts, resp, http,
                   solrCalls, pdfCalls>>

\* the checks of invalid and length after the loop
resourceAfterValidation ==
    /\ pc = "validate"
    /\ k > Len(config.Fields)
    /\ IF invalid
       THEN /\ errlog' = Append(errlog, FieldInconsistencies)
            /\ resp' = Failure(FieldInconsistencies)
            /\ pc' = "return"
            /\ UNCHANGED <<i, parts>>
       ELSE IF length = 0
       THEN /\ errlog' = Append(errlog, NoDigitalItems)
            /\ resp' = Failure(NoDigitalItems)
            /\ pc' = "return"
            /\ UNCHANGED <<i, parts>>
       ELSE /\ i' = 0
            /\ parts' = <<>>
            /\ pc' = "assemble"
            /\ UNCHANGED <<resp, errlog>>
    /\ UNCHANGED <<config, authorization, claims,
                   id, solrRes, doc, length, invalid, k, c, part, http,
                   solrCalls, pdfCalls>>

\* fieldValues[row] is out of range for some array field that is not custom
flatIndexOutOfRange(fields, d, row) ==
    \E n \in 1..Len(fields) :
        /\ ~fields[n].Custom
        /\ fields[n].Array
        /\ row + 1 > Len(getValuesByTag(d, fields[n].Field))

\* firstPassValue taking the first value for array fields too
firstPassValue_AlwaysFirst(field, d, row) ==
    IF field.Custom THEN "" ELSE firstElementOf(getValuesByTag(d, field.Field))

\* the value the first pass takes for a field in a row
firstPassValue(field, d, row) ==
    IF field.Custom THEN ""
    ELSE IF field.Array THEN getValuesByTag(d, field.Field)[row + 1]
    ELSE firstElementOf(getValuesByTag(d, field.Field))

\* the first pass over Fields for one row, from field n on
RECURSIVE firstPass(_, _, _, _, _)
firstPass(fields, d, row, n, item) ==
    IF n > Len(fields) THEN item
    ELSE LET fieldValue == firstPassValue(fields[n], d, row)
         IN  firstPass(fields, d, row, n + 1,
                       IF fieldValue # "" THEN Put(item, fields[n].Name, Str(fieldValue))
                       ELSE item)

\* for i := 0; i < length; i++ { item := ...; first pass }
resourceBeginItem ==
    /\ pc = "assemble"
    /\ IF i < length
       THEN IF flatIndexOutOfRange(config.Fields, doc, i)
            THEN /\ pc' = "panicked"
                 /\ UNCHANGED <<part, c>>
            ELSE /\ part' = firstPass(config.Fields, doc, i, 1, EmptyMap)
                 /\ c' = 1
                 /\ pc' = "custom"
       ELSE /\ pc' = "record"
            /\ UNCHANGED <<part, c>>
    /\ UNCHANGED <<config, authorization, claims,
                   id, solrRes, doc, length, invalid, k, i, parts, resp, http,
                   errlog, solrCalls, pdfCalls>>

\* one iteration of the second pass over Fields
resourceSecondPass ==
    /\ pc = "custom"
    /\ c <= Len(config.Fields)
    /\ LET field == config.Fields[c] IN
       IF field.Custom /\ field.Name = "pdf_status"
       THEN IF pidPanics(part)
            THEN /\ pc' = "panicked"
                 /\ UNCHANGED <<part, c, pdfCalls>>
            ELSE \E outcome \in PdfOutcomes, body \in PdfBodies :
                 LET pdfURL == firstElementOf(getValuesByTag(doc, field.Field))
                     pdfPID == part["pid"].str
                     got == getPdfStatus(pdfURL, pdfPID, outcome, body)
                     pdfStatus == IF got.err # NoError THEN "" ELSE got.status
                 IN  /\ pdfCalls' =
                          IF pdfURL # "" /\ pdfPID # ""
                          THEN Append(pdfCalls,
                                      [row |-> i,
                                       url |-> pdfEndpointURL(pdfURL, pdfPID, "/status"),
                                       sent |-> pdfRequestSent(pdfURL, pdfPID, outcome),
                                       outcome |-> outcome])
                          ELSE pdfCalls
                     /\ part' = IF pdfStatus # ""
                                THEN Put(part, field.Name, Str(pdfStatus)) ELSE part
                     /\ c' = c + 1
                     /\ UNCHANGED pc
       ELSE /\ c' = c + 1
            /\ UNCHANGED <<pc, part, pdfCalls>>
    /\ UNCHANGED <<config, authorization, claims,
                   id, solrRes, doc, length, invalid, k, i, parts, resp, http,
                   errlog, solrCalls>>

\* items = append(items, item), and the loop's i++
resourceAppendItem ==
    /\ pc = "custom"
    /\ c > Len(config.Fields)
    /\ parts' = Append(parts, part)
    /\ i' = i + 1
    /\ pc' = "assemble"
    /\ UNCHANGED <<config, authorization, claims,
                   id, solrRes, doc, length, invalid, k, c, part, resp, http,
                   errlog, solrCalls, pdfCalls>>

\* record["id"], record["items"] and the successful return
resourceBuildRecord ==
    /\ pc = "record"
    /\ resp' = Success(Put(Put(EmptyMap, "id", Str(id)), "items", List(parts)))
    /\ pc' = "return"
    /\ UNCHANGED <<config, authorization, claims,
                   id, solrRes, doc, length, invalid, k, i, c, part, parts,
                   http, errlog, solrCalls, pdfCalls>>

NextResource ==
    \/ initializeFlatService
    \/ authenticateHandler
    \/ itemHandlerBegin
    \/ resourceSolrQuery
    \/ checkNumRows
    \/ resourceValidateField
    \/ resourceAfterValidation
    \/ resourceBeginItem
    \/ resourceSecondPass
    \/ resourceAppendItem
    \/ resourceBuildRecord
    \/ itemHandlerEnd
    \/ requestDone

SpecResource == InitResource /\ [][NextResource]_vars

-----------------------------------------------------------------------------
(* Vocabulary of the properties, stated on the configuration and the raw   *)
(* document rather than through the handler's own helpers                  *)

\* handleItemRequest has returned a searchResponse
Returned == pc \in {"return", "responded"}

\* the request being handled is the health-check probe
Probing == pc \in {"pingQuery", "pingReturn", "pinged"}

\* the request is over: a response was returned or the handler panicked
Ended == pc \in {"return", "responded", "panicked"}

\* the index query succeeded and returned a document
GotDocument == ~solrRes.isNil /\ solrRes.status = 0 /\ solrRes.numRows > 0

\* the index query succeeded and returned no document
GotNoDocument == ~solrRes.isNil /\ solrRes.status = 0 /\ solrRes.numRows = 0

TheDocument == solrRes.Docs[1]

IndexedFields == config.Fields.Parts.Indexed
CustomFields == config.Fields.Parts.Custom
ItemFields == config.Fields.Item

\* number of values a tag holds in the raw document (an empty scalar holds none)
ValueCount(d, tag) ==
    IF tag \notin DOMAIN d THEN 0
    ELSE IF d[tag].kind = "[]string" THEN Len(d[tag].v)
    ELSE IF d[tag].kind = "string" THEN (IF d[tag].v = "" THEN 0 ELSE 1)
    ELSE 1

\* number of elements the handler sees for a tag (a scalar is one element)
ElementCount(d, tag) ==
    IF tag \notin DOMAIN d THEN 0
    ELSE IF d[tag].kind = "[]string" THEN Len(d[tag].v)
    ELSE 1

\* element n (from 1) the handler sees for a tag
Element(d, tag, n) ==
    IF d[tag].kind = "[]string" THEN d[tag].v[n]
    ELSE IF d[tag].kind = "string" THEN d[tag].v
    ELSE "0.00000000"

\* indexed fields violating the structure of the document
IsMissing(d, n) == IndexedFields[n].Required /\ ElementCount(d, IndexedFields[n].Field) = 0
Present(d) == { n \in 1..Len(IndexedFields) : ~IsMissing(d, n) }
FirstPresent(d) == CHOOSE n \in Present(d) : \A m \in Present(d) : n <= m
\* the cardinality N of the document, -1 when no field establishes it
Resolved(d) ==
    IF Present(d) = {} THEN -1 ELSE ElementCount(d, IndexedFields[FirstPresent(d)].Field)
IsMismatch(d, n) ==
    n \in Present(d) /\ ElementCount(d, IndexedFields[n].Field) # Resolved(d)
Violating(d) == { n \in 1..Len(IndexedFields) : IsMissing(d, n) \/ IsMismatch(d, n) }

\* the map an encoded object stands for
Decoded(pairs) ==
    [name \in { pairs[n][1] : n \in 1..Len(pairs) } |->
        pairs[CHOOSE n \in 1..Len(pairs) : pairs[n][1] = name][2]]

\* the record an encoded body stands for
DecodedRecord(pairs) ==
    [name \in { pairs[n][1] : n \in 1..Len(pairs) } |->
        LET v == pairs[CHOOSE n \in 1..Len(pairs) : pairs[n][1] = name][2]
        IN  IF DOMAIN v = {"list"}
            THEN List([r \in 1..Len(v.list) |-> Decoded(v.list[r])])
            ELSE v]

\* the rows of a successful response
Rows == resp.data["parts"].list

\* a piece occurs in a message
Mentions(msg, piece) == \E n \in 1..Len(msg) : msg[n] = piece

\* the messages validation logs for the violating fields, in configuration order
RECURSIVE ViolationLog(_, _)
ViolationLog(d, n) ==
    IF n > Len(IndexedFields) THEN <<>>
    ELSE (IF IsMissing(d, n)
            THEN <<<<"missing required digital content field: ", IndexedFields[n].Field>>>>
          ELSE IF IsMismatch(d, n)
            THEN <<<<"array-type field length mismatch for field: ", IndexedFields[n].Field>>>>
          ELSE <<>>) \o ViolationLog(d, n + 1)

-----------------------------------------------------------------------------
(* C1 *)

\* every indexed field holds the same number N >= 1 of values, none of them
\* empty, and every required field holds a value
EqualLengths(d, N) ==
    /\ Len(IndexedFields) > 0
    /\ \A n \in 1..Len(IndexedFields) :
          /\ ValueCount(d, IndexedFields[n].Field) = N
          /\ \A m \in 1..N : Element(d, IndexedFields[n].Field, m) # ""
    /\ \A n \in 1..Len(ItemFields) :
          ItemFields[n].Required => ValueCount(d, ItemFields[n].Field) >= 1

\* C1: whenever every configured indexed field of the document has the same
\* number N >= 1 of values and every required field has a value, the item
\* request ends with status 200, no error and exactly N rows.
C1_EqualLengthsSucceed ==
    \A N \in 1..MaxLen :
        (Ended /\ GotDocument /\ EqualLengths(TheDocument, N)) =>
            /\ Returned
            /\ resp.status = StatusOK
            /\ resp.err = NoError
            /\ Len(Rows) = N

-----------------------------------------------------------------------------
(* C2 *)

StructuralFailure == Returned /\ resp.err = <<"digital content field inconsistencies">>

-----------------------------------------------------------------------------
(* C3 *)

\* C3 as claimed: whenever the cardinality of the document resolves to 0 the
\* request fails with "no digital parts found in this record".
C3_ZeroCardinalityIsEmptyRecord ==
    (Ended /\ GotDocument /\ Resolved(TheDocument) = 0) =>
        /\ Returned
        /\ resp.status = StatusInternalServerError
        /\ resp.err = <<"no digital parts found in this record">>

\* C3, amended: whenever the cardinality of the document resolves to 0 the
\* request fails with status 500 and no data; the error is "no digital parts
\* found in this record" when validation recorded no violation, and "digital
\* content field inconsistencies" when a required indexed field is empty or
\* another indexed field has values. It never succeeds with zero rows.
C3_ZeroCardinalityFails ==
    (Ended /\ GotDocument /\ Resolved(TheDocument) = 0) =>
        /\ Returned
        /\ length = 0
        /\ resp.status = StatusInternalServerError
        /\ resp.data = Nil
        /\ resp.err = IF Violating(TheDocument) = {}
                      THEN <<"no digital parts found in this record">>
                      ELSE <<"digital content field inconsistencies">>

\* the EmptyRecord failure is returned for a document of cardinality 0
C3_Witness ==
    /\ Returned
    /\ GotDocument
    /\ Resolved(TheDocument) = 0
    /\ resp.err = <<"no digital parts found in this record">>

-----------------------------------------------------------------------------
(* C4 *)

\* a required item-level or indexed part-level field without a value
LacksRequired(d) ==
    \/ \E n \in 1..Len(ItemFields) :
          ItemFields[n].Required /\ ValueCount(d, ItemFields[n].Field) = 0
    \/ \E n \in 1..Len(IndexedFields) :
          IndexedFields[n].Required /\ ValueCount(d, IndexedFields[n].Field) = 0

\* C4: no status-200 response is produced for a document in which a required
\* field has no value (tag absent, empty array, or empty scalar).
C4_MissingRequiredFails ==
    (Returned /\ GotDocument /\ LacksRequired(TheDocument)) => resp.status # StatusOK

-----------------------------------------------------------------------------
(* The rows a document calls for *)

\* the value of the indexed field named "pid" in row r (from 0), "" when none
PidOfRow(d, r) ==
    IF \E n \in 1..Len(IndexedFields) : IndexedFields[n].Name = "pid"
    THEN LET n == CHOOSE n \in 1..Len(IndexedFields) : IndexedFields[n].Name = "pid"
         IN  Element(d, IndexedFields[n].Field, r + 1)
    ELSE ""

\* the PDF base URL the handler takes for a custom field
BaseURL(d, f) == IF ElementCount(d, f.Field) = 0 THEN "" ELSE Element(d, f.Field, 1)

\* the names row r carries
RowNames(d, r) ==
    { IndexedFields[n].Name :
        n \in { m \in 1..Len(IndexedFields) : Element(d, IndexedFields[m].Field, r + 1) # "" } }
    \cup
    { CustomFields[n].Name :
        n \in { m \in 1..Len(CustomFields) :
                  \/ CustomFields[m].Name = "iiif_manifest_url"
                  \/ CustomFields[m].Name = "pdf" /\ BaseURL(d, CustomFields[m]) # "" } }

PdfURLs(base, pid) ==
    [generate |-> Text(<<base, "/", pid, config.Pdf.Endpoints.Generate>>),
     status   |-> Text(<<base, "/", pid, config.Pdf.Endpoints.Status>>),
     download |-> Text(<<base, "/", pid, config.Pdf.Endpoints.Download>>),
     delete   |-> Text(<<base, "/", pid, config.Pdf.Endpoints.Delete>>)]

\* row r of the document when the PDF service reports pdfStatus for it
ExpectedRow(d, r, pdfStatus) ==
    [name \in RowNames(d, r) |->
        IF \E n \in 1..Len(IndexedFields) : IndexedFields[n].Name = name
        THEN LET n == CHOOSE n \in 1..Len(IndexedFields) : IndexedFields[n].Name = name
             IN  Str(Element(d, IndexedFields[n].Field, r + 1))
        ELSE LET f == CustomFields[CHOOSE n \in 1..Len(CustomFields) :
                                        CustomFields[n].Name = name]
             IN  IF name = "pdf"
                 THEN [status |-> pdfStatus, urls |-> PdfURLs(BaseURL(d, f), PidOfRow(d, r))]
                 ELSE Text(<<f.CustomInfo.IIIFManifestURL.URLPrefix, "/", PidOfRow(d, r)>>)]

\* the exchanges with the PDF service made for row r
CallsFor(r) == { q \in 1..Len(pdfCalls) : pdfCalls[q].row = r }

-----------------------------------------------------------------------------
(* C5 *)

Succeeded ==
    /\ resp.status = StatusOK
    /\ resp.err = NoError
    /\ resp.data # Nil
    /\ GotDocument
    /\ Len(Rows) = (IF Resolved(TheDocument) < 0 THEN 0 ELSE Resolved(TheDocument))
    /\ \A r \in 0..(Len(Rows) - 1) : DOMAIN Rows[r + 1] = RowNames(TheDocument, r)

Failed ==
    /\ resp.status = StatusInternalServerError
    /\ resp.err # NoError
    /\ resp.data = Nil

\* C5: every response of the item request is either a success (status 200, no
\* error, a record with all N rows, each carrying every field the document
\* calls for) or a failure (status 500, an error, no data); a failure is
\* returned before any row is assembled or any PDF status is fetched, nothing
\* is returned before the handler has finished, and itemHandler writes the
\* error text or the record accordingly.
C5_SuccessOrFailure ==
    /\ (~Returned /\ ~Probing) => resp = NoResponse
    /\ (~Returned /\ ~Probing /\ pc # "aborted") => http = NoHTTP
    /\ Returned => (Succeeded \/ Failed)
    /\ (Returned /\ Failed) => (parts = <<>> /\ part = EmptyMap /\ pdfCalls = <<>>)
    /\ pc = "responded" =>
          /\ http.status = resp.status
          /\ resp.err # NoError => http.body = [text |-> resp.err]
          /\ resp.err = NoError =>
                /\ DOMAIN http.body = {"json"}
                /\ DecodedRecord(http.body.json) = resp.data

\* a record of two rows was returned after PDF status lookups
C5_Witness ==
    /\ pc = "responded"
    /\ Succeeded
    /\ Len(Rows) = 2
    /\ Len(pdfCalls) = 2

-----------------------------------------------------------------------------
(* C6 *)

\* the status the PDF service delivered in an exchange, "" when it failed
Delivered(q) == IF pdfCalls[q].outcome = "ok" THEN "READY" ELSE ""

\* C6: when the exchange with the PDF service fails for a row (request not
\* created, timeout, connection refused, other transport error, non-200,
\* read error), the handler neither fails nor aborts on that row; the row, as
\* finished and as returned with status 200, is exactly the row the document
\* calls for with the pdf field present and its status "", and every row
\* whose exchange succeeded carries the delivered status.
C6_PdfFailureDegradesOneField ==
    \A q \in 1..Len(pdfCalls) :
        LET r == pdfCalls[q].row IN
        /\ CallsFor(r) = {q}
        /\ pc = "panicked" => i # r
        /\ Len(parts) > r => parts[r + 1] = ExpectedRow(doc, r, Delivered(q))
        /\ (Len(parts) = r /\ pc # "panicked") =>
              /\ pc = "custom"
              /\ "pdf" \in DOMAIN part
              /\ part["pdf"].status = Delivered(q)
        /\ Returned =>
              /\ resp.status = StatusOK
              /\ resp.err = NoError
              /\ Rows[r + 1] = ExpectedRow(doc, r, Delivered(q))

\* a record was returned although the PDF service timed out for its first row
C6_Witness ==
    /\ pc = "responded"
    /\ resp.status = StatusOK
    /\ Len(pdfCalls) = 2
    /\ pdfCalls[1].outcome = "Timeout"
    /\ pdfCalls[2].outcome = "ok"
    /\ Rows[1]["pdf"].status = ""
    /\ Rows[2]["pdf"].status = "READY"

-----------------------------------------------------------------------------
(* C7 *)

\* row r is to be skipped by the pdf field f: no base URL or no identifier
SkipsPdf(d, f, r) == BaseURL(d, f) = "" \/ PidOfRow(d, r) = ""

\* C7: for a row whose PDF base URL is empty or whose pid is empty or absent,
\* the pdf field is absent from the row, no exchange with the PDF service is
\* made for the row, and the handler does not abort on it.
C7_PdfSkippedSilently ==
    \A n \in 1..Len(CustomFields) :
        CustomFields[n].Name = "pdf" =>
            /\ \A r \in 0..(Len(parts) - 1) :
                  SkipsPdf(doc, CustomFields[n], r) =>
                      ("pdf" \notin DOMAIN parts[r + 1] /\ CallsFor(r) = {})
            /\ ~(pc = "panicked" /\ c = n /\ SkipsPdf(doc, CustomFields[n], i))

-----------------------------------------------------------------------------
(* C9 *)

\* C9: when the index query succeeds with zero documents the request goes
\* from the row-count check straight to the failure "record not found"
\* (status 500): no field was validated, no row assembled and no PDF status
\* fetched.
C9_NotFoundBeforeAnythingElse ==
    (GotNoDocument /\ ~Probing) =>
        /\ pc \in {"numRows", "return", "responded"}
        /\ k = 1 /\ length = -1 /\ ~invalid /\ doc = ZeroDocument
        /\ i = 0 /\ part = EmptyMap /\ parts = <<>>
        /\ pdfCalls = <<>>
        /\ Returned =>
              /\ resp = [status |-> StatusInternalServerError, data |-> Nil,
                         err |-> <<"record not found">>]
              /\ errlog = << <<"record not found">> >>
        /\ pc = "responded" =>
              http = [status |-> StatusInternalServerError,
                      body |-> [text |-> <<"record not found">>]]

\* the not-found failure was written to the client
C9_Witness == GotNoDocument /\ pc = "responded" /\ resp.err = <<"record not found">>

-----------------------------------------------------------------------------
(* C10 *)

AllFields == ItemFields \o IndexedFields \o CustomFields

\* a field names no solrDocument tag, or a custom field has an unknown name
BadConfig ==
    \/ \E n \in 1..Len(AllFields) : AllFields[n].Field \notin solrDocumentTags
    \/ \E n \in 1..Len(CustomFields) :
          CustomFields[n].Name \notin {"iiif_manifest_url", "pdf"}

\* C10: a configuration with a field whose tag is no index-document tag, or
\* with a custom field of an unknown name, never gets past service start: the
\* service exits, no request is handled under it, and the custom-field loop
\* of a request never meets an unknown name.
C10_BadConfigNeverServes ==
    /\ BadConfig => pc \in {"init", "exited"}
    /\ pc = "exited" => (resp = NoResponse /\ http = NoHTTP /\ solrCalls = 0)
    /\ (pc = "custom" /\ c <= Len(CustomFields)) =>
          CustomFields[c].Name \in {"iiif_manifest_url", "pdf"}

\* the service exited on a custom field of an unknown name
C10_Witness ==
    /\ pc = "exited"
    /\ \E n \in 1..Len(CustomFields) : CustomFields[n].Name = "pdf_status"

-----------------------------------------------------------------------------
(* C8, on the flat field list of handleResourceRequest *)

FlatFields == config.Fields

\* the array fields that are not custom
ArrayFields == { n \in 1..Len(FlatFields) : ~FlatFields[n].Custom /\ FlatFields[n].Array }

\* the cardinality N of a document that passed validation
Cardinality_N(d) ==
    IF ArrayFields = {} THEN 0
    ELSE ElementCount(d, FlatFields[CHOOSE n \in ArrayFields : TRUE].Field)

\* the value row r (from 0) is to carry for the field at position n
RowValue(d, n, r) ==
    IF FlatFields[n].Array THEN Element(d, FlatFields[n].Field, r + 1)
    ELSE IF ElementCount(d, FlatFields[n].Field) = 0 THEN ""
    ELSE Element(d, FlatFields[n].Field, 1)

\* a row carries the values of index r: for every field that is not custom,
\* the r-th value of an array field and the first value of any other field
\* (an empty value is left out of the row)
CarriesIndex(row, d, r) ==
    \A n \in 1..Len(FlatFields) :
        ~FlatFields[n].Custom =>
            IF RowValue(d, n, r) = "" THEN FlatFields[n].Name \notin DOMAIN row
            ELSE /\ FlatFields[n].Name \in DOMAIN row
                 /\ row[FlatFields[n].Name] = Str(RowValue(d, n, r))

-----------------------------------------------------------------------------
(* C11 *)

\* a request to the /api route has been received and not yet replaced
ApiRequest == pc \notin {"init", "exited", "serving"} /\ ~Probing

\* the pieces a..b of a header are all whitespace
AllWhitespace(h, a, b) == \A n \in a..b : h[n] \in Whitespace

\* the header reads, after whitespace normalisation, exactly "Bearer <token>"
\* with the token at the pieces b..e
BearerAt(h, b, e) ==
    \E a \in 1..Len(h) :
        /\ AllWhitespace(h, 1, a - 1)
        /\ h[a] = "Bearer"
        /\ a + 1 < b
        /\ AllWhitespace(h, a + 1, b - 1)
        /\ b <= e
        /\ \A n \in b..e : h[n] \notin Whitespace
        /\ AllWhitespace(h, e + 1, Len(h))

\* the header yields a valid bearer token: it is well formed and its token is
\* neither 'undefined' nor one failing signature validation
YieldsValidToken(h) ==
    \E b, e \in 1..Len(h) :
        /\ BearerAt(h, b, e)
        /\ SubSeq(h, b, e) # <<"undefined">>
        /\ SubSeq(h, b, e) = SignedToken

\* the core pipeline has not run for the request
PipelineNotRun ==
    /\ solrCalls = 0 /\ solrRes = NoSolrResponse
    /\ k = 1 /\ length = -1 /\ ~invalid
    /\ i = 0 /\ part = EmptyMap /\ parts = <<>>
    /\ pdfCalls = <<>>
    /\ resp = NoResponse

\* C11: a request to the /api route whose Authorization header does not
\* yield a valid bearer token (not exactly 'Bearer <token>' after whitespace
\* normalisation, an 'undefined' token, or a token failing signature
\* validation) is aborted with 401 and the core pipeline (index query,
\* validation, PDF lookup) never runs for it; only requests whose header
\* yields a valid token get past authentication.
C11_UnauthenticatedAborted ==
    ApiRequest =>
        /\ ~YieldsValidToken(authorization) =>
              /\ pc = "aborted"
              /\ http = [status |-> StatusUnauthorized, body |-> Nil]
              /\ claims = NoClaims
              /\ PipelineNotRun
        /\ pc = "aborted" => ~YieldsValidToken(authorization)

\* a request carrying a well-formed header with a forged token was aborted
C11_Witness ==
    /\ pc = "aborted"
    /\ authorization = <<"\t", "Bearer", " ", " ", "eyJ.forged", " ">>
    /\ http.status = StatusUnauthorized
    /\ errlog = << <<"JWT signature for ", ForgedToken, " is invalid: ",
                     "signature is invalid">> >>

-----------------------------------------------------------------------------
(* C12 *)

\* the probe succeeded / failed
ProbeSucceeded == resp.err = NoError
HealthBody == http.body.json.solr

\* C12 as claimed: GET /healthcheck answers with status 200 and a body whose
\* healthy flag is true iff the probe succeeded, the error message being
\* present when it failed.
C12_HealthCheckAnswers200 ==
    pc = "pinged" =>
        /\ http.status = StatusOK
        /\ HealthBody.healthy = ProbeSucceeded
        /\ ~ProbeSucceeded => HealthBody.message = resp.err

\* C12, amended: GET /healthcheck answers with the status of the probe: 200
\* and {solr:{healthy:true}} without a message when the probe query
\* succeeded, 500 and {solr:{healthy:false, message}} carrying the error
\* message when it failed.
C12_HealthCheckAnswersProbeStatus ==
    pc = "pinged" =>
        /\ DOMAIN http.body = {"json"}
        /\ DOMAIN http.body.json = {"solr"}
        /\ HealthBody.healthy = ProbeSucceeded
        /\ ProbeSucceeded =>
              /\ http.status = StatusOK
              /\ DOMAIN HealthBody = {"healthy"}
              /\ ~solrRes.isNil /\ solrRes.status = 0
        /\ ~ProbeSucceeded =>
              /\ http.status = StatusInternalServerError
              /\ DOMAIN HealthBody = {"healthy", "message"}
              /\ HealthBody.message = resp.err
              /\ resp.err # NoError

\* the probe failed on a Solr timeout and the health check answered 500
C12_Witness ==
    /\ pc = "pinged"
    /\ resp.err = <<"failed to receive Solr response">>
    /\ http.status = StatusInternalServerError
    /\ HealthBody = [healthy |-> FALSE, message |-> <<"failed to receive Solr response">>]

-----------------------------------------------------------------------------
(* C13 *)

\* the field names of an encoded object, in the order they were written
KeysOf(pairs) == [n \in 1..Len(pairs) |-> pairs[n][1]]

PositionIn(order, name) == CHOOSE n \in 1..Len(order) : order[n] = name

\* the names appear in the relative order they have in the given sequence
InOrderOf(keys, order) ==
    \A a, b \in 1..Len(keys) :
        a < b => /\ \E n \in 1..Len(order) : order[n] = keys[a]
                 /\ \E n \in 1..Len(order) : order[n] = keys[b]
                 /\ PositionIn(order, keys[a]) < PositionIn(order, keys[b])

\* the order in which the configuration declares the fields of a row and of
\* the record
RowDeclarationOrder == Names(IndexedFields) \o Names(CustomFields)
RecordDeclarationOrder == Names(ItemFields) \o <<"parts">>

AnsweredRecord == pc = "responded" /\ resp.err = NoError
BodyRows == Decoded(http.body.json)["parts"].list

-----------------------------------------------------------------------------
(* C14 *)

\* C14: every successful response of the by-identifier endpoint carries the
\* caller-supplied identifier in the assembled record, both as returned by
\* the handler and as written to the client.
C14_RecordCarriesIdentifier ==
    (Returned /\ resp.status = StatusOK) =>
        /\ "id" \in DOMAIN resp.data
        /\ resp.data["id"] = Str(id)
        /\ pc = "responded" =>
              \E n \in 1..Len(http.body.json) : http.body.json[n] = <<"id", Str(id)>>

-----------------------------------------------------------------------------
(* C15 *)

\* row r's own value of a custom field's tag, "" when the tag has no such value
OwnValue(d, f, r) ==
    IF ElementCount(d, f.Field) > r THEN Element(d, f.Field, r + 1) ELSE ""

\* C15: for each row the PDF base URL used for the row's pdf field (the
\* status lookup and the generate/status/download/delete URLs) is the row's
\* own value of the configured PDF URL field, and a row whose own value is
\* empty gets no pdf field and no status lookup.
C15_PdfBaseIsRowsOwnValue ==
    \A n \in 1..Len(CustomFields) :
        CustomFields[n].Name = "pdf" =>
            \A r \in 0..(Len(parts) - 1) :
                LET own == OwnValue(doc, CustomFields[n], r) IN
                /\ own = "" => ("pdf" \notin DOMAIN parts[r + 1] /\ CallsFor(r) = {})
                /\ "pdf" \in DOMAIN parts[r + 1] =>
                      parts[r + 1]["pdf"].urls = PdfURLs(own, PidOfRow(doc, r))
                /\ \A q \in CallsFor(r) :
                      pdfCalls[q].url = pdfEndpointURL(own, PidOfRow(doc, r), "/status")

-----------------------------------------------------------------------------
(* C16 *)

\* the request is handled by itemHandler and has got to the index query or past it
Querying == ~Probing /\ pc \in {"numRows", "validate", "assemble", "custom", "item",
                                "return", "responded", "panicked"}

\* the errors a request can end with before any row is assembled
EarlyErrors ==
    { solrQueryError(outcome) : outcome \in SolrFailures }
    \cup { <<"record not found">>, <<"digital content field inconsistencies">>,
           <<"no digital parts found in this record">> }

\* C16: each request is a strict linear pipeline without retries: the index
\* is queried exactly once; the PDF status client is called at most once per
\* row, for the rows in ascending order, and only after the index query has
\* returned a document and structural validation has passed; and a request
\* that ends with an index, not-found, structural or empty-record error has
\* made no PDF status call.
C16_LinearPipelineNoRetries ==
    ~Probing =>
        /\ solrCalls = (IF Querying THEN 1 ELSE 0)
        /\ \A q \in 1..Len(pdfCalls) :
              /\ CallsFor(pdfCalls[q].row) = {q}
              /\ q > 1 => pdfCalls[q - 1].row < pdfCalls[q].row
              /\ pdfCalls[q].row \in 0..(length - 1)
              /\ pdfCalls[q].row <= i
        /\ pdfCalls # <<>> =>
              /\ solrCalls = 1
              /\ GotDocument
              /\ k = Len(IndexedFields) + 1
              /\ ~invalid
              /\ Violating(doc) = {}
              /\ length >= 1
        /\ (Returned /\ resp.err # NoError) =>
              /\ resp.err \in EarlyErrors
              /\ pdfCalls = <<>>

\* a request was answered after one index query and one PDF status call for
\* each of its two rows, the first of which failed and was not repeated
C16_Witness ==
    /\ pc = "responded"
    /\ solrCalls = 1
    /\ Len(pdfCalls) = 2
    /\ pdfCalls[1].row = 0 /\ pdfCalls[1].outcome = "connection refused"
    /\ pdfCalls[2].row = 1

-----------------------------------------------------------------------------
(* C17 *)

\* C17: for every accepted configuration and every index document the
\* handler completes with a searchResponse: the derivation of the custom
\* fields never aborts abnormally on a row without a 'pid' entry.
C17_CustomFieldsNeverAbort ==
    (ApiRequest /\ "pid" \notin DOMAIN part) => pc # "panicked"

-----------------------------------------------------------------------------
(* C18 *)

\* the row-assembly loop has been reached
Assembling == ~Probing /\ pc \in {"assemble", "custom", "item"}

\* C18: whenever the row-assembly loop is reached, every configured indexed
\* part field has exactly 'length' values in the document, so that reading
\* element i of any indexed field for 0 <= i < length is within bounds: the
\* handler never aborts on such a read.
C18_IndexedReadsWithinBounds ==
    /\ Assembling =>
          /\ ~invalid
          /\ length # 0
          /\ \A n \in 1..Len(IndexedFields) :
                /\ ElementCount(doc, IndexedFields[n].Field) = length
                /\ Len(getValuesByTag(doc, IndexedFields[n].Field)) = length
          /\ i <= (IF length < 0 THEN 0 ELSE length)
          /\ pc = "custom" => i < length
    /\ (ApiRequest /\ pc = "panicked") =>
          \A n \in 1..Len(IndexedFields) :
              i + 1 <= ElementCount(doc, IndexedFields[n].Field)

\* the second row of a document with two indexed fields of two values each
\* is being assembled
C18_Witness ==
    /\ pc = "custom"
    /\ i = 1
    /\ length = 2
    /\ Len(IndexedFields) = 2
    /\ DOMAIN part = {"pid", "thumb"}

-----------------------------------------------------------------------------
(* C19 *)

\* the first element of the values the document holds for a tag, "" when none
FirstValue(d, tag) == IF ElementCount(d, tag) = 0 THEN "" ELSE Element(d, tag, 1)

\* a row carries the indexed fields of index r whose values are not empty
CopiesNonEmpty(row, d, r) ==
    \A n \in 1..Len(IndexedFields) :
        LET name == IndexedFields[n].Name
            value == Element(d, IndexedFields[n].Field, r + 1)
        IN  /\ (name \in DOMAIN row) = (value # "")
            /\ name \in DOMAIN row => (row[name] = Str(value) /\ row[name] # Str(""))

\* C19: no copied (non-custom) field is ever emitted with an empty-string
\* value: a part-level indexed field appears in row i iff its i-th value is
\* non-empty, and an item-level field appears at the top level of the record
\* iff the first element of its values is non-empty.
C19_NoEmptyCopiedField ==
    ApiRequest =>
        /\ \A r \in 0..(Len(parts) - 1) : CopiesNonEmpty(parts[r + 1], doc, r)
        /\ pc = "custom" => CopiesNonEmpty(part, doc, i)
        /\ (Returned /\ resp.status = StatusOK) =>
              /\ Rows = parts
              /\ \A n \in 1..Len(ItemFields) :
                    LET name == ItemFields[n].Name
                        value == FirstValue(doc, ItemFields[n].Field)
                    IN  /\ (name \in DOMAIN resp.data) = (value # "")
                        /\ name \in DOMAIN resp.data => resp.data[name] = Str(value)

\* a record was answered whose second row lacks the pid its first row has,
\* and which lacks the item-level field
C19_Witness ==
    /\ pc = "responded"
    /\ resp.status = StatusOK
    /\ Len(ItemFields) = 1
    /\ DOMAIN resp.data = {"parts"}
    /\ Len(Rows) = 2
    /\ "pid" \in DOMAIN Rows[1]
    /\ "pid" \notin DOMAIN Rows[2]
    /\ "thumb" \in DOMAIN Rows[2]

-----------------------------------------------------------------------------
(* C20 *)

EmptyRecord == <<"no digital parts found in this record">>

\* C20: when the configuration declares no indexed array field at all, the
\* cardinality is never established (length keeps its initial -1): a request
\* that got a document then does not fail with EmptyRecord but succeeds with
\* status 200 and an empty sequence of rows, without any PDF status call; and
\* EmptyRecord is raised only when an indexed array field set the cardinality
\* to 0.
C20_NoArrayFieldSucceedsEmpty ==
    ApiRequest =>
        /\ (Len(IndexedFields) = 0 /\ GotDocument) =>
              /\ length = -1
              /\ pc # "panicked"
              /\ pc \notin {"custom"}
              /\ Returned =>
                    /\ resp.status = StatusOK
                    /\ resp.err = NoError
                    /\ Rows = <<>>
                    /\ pdfCalls = <<>>
        /\ (Returned /\ resp.err = EmptyRecord) =>
              /\ length = 0
              /\ Len(IndexedFields) >= 1
              /\ ElementCount(doc, IndexedFields[1].Field) = 0

\* a configuration with custom fields but no indexed field was answered with
\* an empty list of rows
C20_Witness ==
    /\ pc = "responded"
    /\ GotDocument
    /\ Len(IndexedFields) = 0
    /\ Len(CustomFields) = 2
    /\ length = -1
    /\ http.status = StatusOK
    /\ Rows = <<>>

-----------------------------------------------------------------------------
(* C21 *)

\* the probe's index query completed without a transport, decode or
\* Solr-status error
ProbeQueryCompleted == ~solrRes.isNil /\ solrRes.status = 0

\* C21: the health-check probe reports solr as healthy whenever its index
\* query completes without a transport, decode or Solr-status error, even
\* when the query returns zero documents; and the probe never runs field
\* validation, row assembly or any PDF status call.
C21_ProbeHealthyWithoutDocuments ==
    Probing =>
        /\ id = "pingtest"
        /\ solrCalls = (IF pc = "pingQuery" THEN 0 ELSE 1)
        /\ doc = ZeroDocument /\ k = 1 /\ length = -1 /\ ~invalid
        /\ i = 0 /\ c = 1 /\ part = EmptyMap /\ parts = <<>>
        /\ pdfCalls = <<>>
        /\ (pc \in {"pingReturn", "pinged"} /\ ProbeQueryCompleted) =>
              /\ resp = [status |-> StatusOK, data |-> Nil, err |-> NoError]
              /\ errlog = <<>>
        /\ (pc = "pinged" /\ ProbeQueryCompleted) =>
              http = [status |-> StatusOK,
                      body |-> [json |-> [solr |-> [healthy |-> TRUE]]]]
        /\ (pc = "pinged" /\ ~ProbeQueryCompleted) => ~http.body.json.solr.healthy

\* the probe found no document and the health check reported solr healthy
C21_Witness ==
    /\ pc = "pinged"
    /\ ProbeQueryCompleted
    /\ solrRes.numRows = 0
    /\ http.status = StatusOK
    /\ http.body.json.solr.healthy

====
